---- MODULE Spec2Model ----
(***************************************************************************)
(* Model of src/server.py: the module-level GraphQLClient `client`, its     *)
(* two tenacity-retried coroutines get_schema and execute_query, and the   *)
(* three MCP tools connect_graphql, generate_query and execute_graphql.    *)
(*                                                                         *)
(* Every tool call is a coroutine on one asyncio event loop.  The code     *)
(* between two awaits runs atomically; a task can be preempted only where  *)
(* it awaits the network (schema introspection on session entry,           *)
(* session.execute), the transport close at the end of an `async with`, or *)
(* the sleep tenacity inserts between attempts.  Each action below is one  *)
(* such atomic segment.                                                    *)
(*                                                                         *)
(* Library behaviour the code relies on (gql 3, tenacity):                 *)
(*  - `async with Client` connects the transport; AIOHTTPTransport.connect *)
(*    raises TransportAlreadyConnected when its session is already set;    *)
(*    with fetch_schema_from_transport=True and Client.schema unset the    *)
(*    entry then awaits an introspection query, closing the transport and  *)
(*    re-raising if that fails; leaving the block awaits transport.close.  *)
(*  - The repository pins no gql version.  Older releases let a failed     *)
(*    connect propagate as it is; newer ones first await transport.close() *)
(*    and so drop the session another task is using.  closeOnConnectError  *)
(*    is the release installed: either one.                                *)
(*  - session.execute on a transport without session raises                *)
(*    TransportClosed.                                                     *)
(*  - A request in flight when another task closes the transport may fail  *)
(*    or may still complete: both outcomes stay possible.                  *)
(*  - session.execute raises TransportQueryError when the response         *)
(*    carries errors; gql(text) raises GraphQLSyntaxError on a malformed   *)
(*    document.                                                            *)
(*  - @retry without a `retry=` argument retries on every Exception and,   *)
(*    without reraise=True, raises RetryError(last_attempt) when           *)
(*    stop_after_attempt is reached.                                       *)
(***************************************************************************)
EXTENDS Integers, Sequences, FiniteSets, TLC

VARIABLES
    schema,          \* GraphQLClient.schema: the cached SDL text, or None
    gqlSchema,       \* Client.schema of the gql client (set on session entry)
    transport,       \* AIOHTTPTransport.session: "free" or the task that set it
    closeOnConnectError, \* the installed gql closes the transport when connect fails
    task,            \* per task: the position and locals of its tool call
    ncalls,          \* number of tool calls issued so far
    firstSchema,     \* history: value returned by the first successful get_schema
    schemaSessions   \* history: sessions entered by get_schema

vars == <<schema, gqlSchema, transport, closeOnConnectError, task, ncalls, firstSchema, schemaSessions>>

(***************************************************************************)
(* Bounds                                                                  *)
(***************************************************************************)
Tasks == {"t1", "t2"}
MaxCalls == 3        \* tool calls of the sequential caller
MaxConcCalls == 2    \* tool calls of the concurrent callers

(***************************************************************************)
(* Program constants                                                       *)
(***************************************************************************)
MaxAttempts == 3
WaitMultiplier == 1
WaitMin == 2
WaitMax == 10

None == [t |-> "None"]

(***************************************************************************)
(* Exceptions                                                              *)
(***************************************************************************)
TransportAlreadyConnected ==
    [cls |-> "TransportAlreadyConnected", msg |-> "Transport is already connected"]
TransportClosed == [cls |-> "TransportClosed", msg |-> "Transport is not connected"]
GraphQLSyntaxError == [cls |-> "GraphQLSyntaxError", msg |-> "Syntax Error"]
TransportQueryError == [cls |-> "TransportQueryError", msg |-> "field error"]
JSONDecodeError == [cls |-> "JSONDecodeError", msg |-> "Expecting value"]
TransportFailures ==
    { [cls |-> "ClientConnectorError", msg |-> "Cannot connect to host"],
      [cls |-> "TimeoutError", msg |-> "timed out"] }
NoExc == [cls |-> "NoExc", msg |-> ""]
RetryError(last) == [cls |-> "RetryError", msg |-> "", last |-> last]

\* str(e): RetryError prints the repr of its last attempt, which shows the
\* class of the exception that attempt raised; other exceptions print
\* their message.
StrExc(e) ==
    IF e.cls = "RetryError"
    THEN <<"RetryError[<Future state=finished raised ", e.last.cls, ">]">>
    ELSE <<e.msg>>

(***************************************************************************)
(* Inputs                                                                  *)
(***************************************************************************)
\* GraphQL documents as token sequences; the last one is malformed.
Queries == { <<"{", "a", "}">>, <<"{", "b", "}">>, <<"{", "a">> }

\* The `variables` argument: absent, or a JSON text as a token sequence.
VariablesInputs ==
    { None,
      [t |-> "str", s |-> <<>>],
      [t |-> "str", s |-> <<"{", "\"id\"", ":", "\"NY\"", "}">>],
      [t |-> "str", s |-> <<"{", "\"id\"">>],
      [t |-> "str", s |-> <<"null">>] }

RemoteSchemas == {"S1", "S2"}

(***************************************************************************)
(* Pure functions                                                          *)
(***************************************************************************)
NameTokens == {"a", "b"}

\* gql(query): parse the document, GraphQLSyntaxError when malformed.
gql(q) ==
    IF /\ Len(q) >= 3
       /\ q[1] = "{"
       /\ q[Len(q)] = "}"
       /\ \A i \in 2..(Len(q) - 1) : q[i] \in NameTokens
    THEN [ok |-> TRUE, doc |-> [t |-> "document", fields |-> SubSeq(q, 2, Len(q) - 1)]]
    ELSE [ok |-> FALSE, doc |-> None]

JsonScalar(tok) ==
    IF tok = "null" THEN [ok |-> TRUE, val |-> None]
    ELSE IF tok = "0" THEN [ok |-> TRUE, val |-> [t |-> "int", v |-> 0]]
    ELSE IF tok = "\"id\"" THEN [ok |-> TRUE, val |-> [t |-> "str", v |-> "id"]]
    ELSE IF tok = "\"NY\"" THEN [ok |-> TRUE, val |-> [t |-> "str", v |-> "NY"]]
    ELSE [ok |-> FALSE, val |-> None]

\* json.loads on a token sequence: a scalar, {} or a one-member object.
json_loads(s) ==
    IF Len(s) = 1 THEN JsonScalar(s[1])
    ELSE IF s = <<"{", "}">> THEN [ok |-> TRUE, val |-> [t |-> "dict", k |-> None, v |-> None]]
    ELSE IF /\ Len(s) = 5
            /\ s[1] = "{"
            /\ JsonScalar(s[2]).ok
            /\ JsonScalar(s[2]).val.t = "str"
            /\ s[3] = ":"
            /\ JsonScalar(s[4]).ok
            /\ s[5] = "}"
    THEN [ok |-> TRUE,
          val |-> [t |-> "dict", k |-> JsonScalar(s[2]).val, v |-> JsonScalar(s[4]).val]]
    ELSE [ok |-> FALSE, val |-> None]

\* Variant: only None is falsy.
Truthy_not_none(v) == v.t # "None"

\* Python truthiness of the `variables` argument: None and "" are falsy.
Truthy(v) == v.t # "None" /\ Len(v.s) > 0

\* json.dumps(result, indent=2)
json_dumps(v) == [t |-> "json_text", of |-> v]

\* print_schema(schema)
print_schema(s) == [t |-> "sdl", of |-> s]

\* What a healthy endpoint answers to a document with bound variables.
Response(doc, variables) == [t |-> "dict", fields |-> doc.fields, bound |-> variables]

\* Variant: one attempt fewer.
stop_after_attempt_2(attempt_number) == attempt_number >= MaxAttempts - 1

\* Variant: one attempt more.
stop_after_attempt_4(attempt_number) == attempt_number >= MaxAttempts + 1

\* stop_after_attempt(3)
stop_after_attempt(attempt_number) == attempt_number >= MaxAttempts

Min2(a, b) == IF a < b THEN a ELSE b
Max2(a, b) == IF a > b THEN a ELSE b

\* Variant: the lower clamp is missing.
wait_exponential_no_min(attempt_number) ==
    Min2(WaitMultiplier * (2 ^ (attempt_number - 1)), WaitMax)

\* wait_exponential(multiplier=1, min=2, max=10), exp_base 2
wait_exponential(attempt_number) ==
    Max2(Max2(0, WaitMin), Min2(WaitMultiplier * (2 ^ (attempt_number - 1)), WaitMax))

(***************************************************************************)
(* Task records                                                            *)
(***************************************************************************)
NoPending == [k |-> "none", v |-> None]

IdleTask ==
    [ pc         |-> "idle",     \* idle, fetch, execute, close, sleep, done
      op         |-> "none",     \* the tool being run
      fn         |-> "none",     \* probe, get_schema or execute_query
      attempt    |-> 0,          \* tenacity's attempt_number
      query      |-> <<>>,
      variables  |-> None,
      vars_dict  |-> None,
      pending    |-> NoPending,  \* what leaves the `async with` block
      result     |-> None,       \* the string the tool returned
      raised     |-> NoExc,      \* the exception the tool's except caught
      retval     |-> None,       \* the value fn returned
      delays     |-> <<>>,       \* history: sleeps of this fn invocation
      causes     |-> <<>>,       \* history: exception of each failed attempt
      opens      |-> 0,          \* history: sessions this fn invocation opened
      net        |-> 0,          \* history: network round trips it awaited
      entryFirst |-> None,       \* history: firstSchema when fn was called
      entrySchema |-> None,      \* history: the cache when the tool was called
      probeOk    |-> FALSE,      \* history: the probe's block was left normally
      invoked    |-> FALSE,      \* history: execute_query was called
      netFailed  |-> FALSE,      \* history: endpoint failed or reported errors
      appErr     |-> FALSE ]     \* history: endpoint reported GraphQL errors

\* The shared state together with the record of the running task.
State(t) ==
    [ schema |-> schema, gql |-> gqlSchema, transport |-> transport,
      closeOnConnectError |-> closeOnConnectError,
      firstSchema |-> firstSchema, schemaSessions |-> schemaSessions,
      id |-> t, tk |-> task[t] ]

Apply(s) ==
    /\ schema' = s.schema
    /\ gqlSchema' = s.gql
    /\ transport' = s.transport
    /\ UNCHANGED closeOnConnectError
    /\ firstSchema' = s.firstSchema
    /\ schemaSessions' = s.schemaSessions
    /\ task' = [task EXCEPT ![s.id] = s.tk]

(***************************************************************************)
(* The tools' return statements and except clauses                         *)
(***************************************************************************)
ErrorPrefix(op) ==
    IF op = "connect_graphql" THEN "Error connecting to GraphQL endpoint: "
    ELSE IF op = "generate_query" THEN "Error generating query: "
    ELSE "Error executing query: "

Finish(s, prefix, body) ==
    [s EXCEPT !.tk.pc = "done",
              !.tk.pending = NoPending,
              !.tk.result = [t |-> "str", prefix |-> prefix, body |-> body]]

\* Variant: the exception escapes the tool.
Catch_reraise(s, e) ==
    [s EXCEPT !.tk.pc = "done", !.tk.pending = NoPending, !.tk.raised = e]

\* except Exception as e: return f"Error ...: {str(e)}"
Catch(s, e) ==
    Finish([s EXCEPT !.tk.raised = e], ErrorPrefix(s.tk.op), StrExc(e))

(***************************************************************************)
(* tenacity: what @retry does when an attempt raised                       *)
(***************************************************************************)
\* Variant: the outcome of the first attempt.
first_attempt(outcomes) == outcomes[1]

\* retry_state.outcome: the outcome of the attempt made last
last_attempt(outcomes) == outcomes[Len(outcomes)]

\* Variant: a failed attempt also drops the cached schema.
AttemptFailed_invalidate(s, e) ==
    LET s1 == [s EXCEPT !.tk.causes = Append(@, e), !.schema = None]
    IN  IF stop_after_attempt(s1.tk.attempt)
        THEN Catch(s1, RetryError(last_attempt(s1.tk.causes)))
        ELSE [s1 EXCEPT !.tk.pc = "sleep",
                        !.tk.pending = NoPending,
                        !.tk.delays = Append(@, wait_exponential(s1.tk.attempt))]

\* Variant: a failed attempt caches whatever the client holds as schema.
AttemptFailed_cache_partial(s, e) ==
    LET s1 == [s EXCEPT !.tk.causes = Append(@, e), !.schema = print_schema(s.gql)]
    IN  IF stop_after_attempt(s1.tk.attempt)
        THEN Catch(s1, RetryError(last_attempt(s1.tk.causes)))
        ELSE [s1 EXCEPT !.tk.pc = "sleep",
                        !.tk.pending = NoPending,
                        !.tk.delays = Append(@, wait_exponential(s1.tk.attempt))]

\* Variant: no stop condition; every failure starts the retry state afresh.
AttemptFailed_retry_forever(s, e) ==
    [s EXCEPT !.tk.pc = "sleep", !.tk.pending = NoPending,
              !.tk.attempt = 0, !.tk.opens = 0, !.tk.net = 0]

AttemptFailed(s, e) ==
    LET s1 == [s EXCEPT !.tk.causes = Append(@, e)]
    IN  IF stop_after_attempt(s1.tk.attempt)
        THEN Catch(s1, RetryError(last_attempt(s1.tk.causes)))
        ELSE [s1 EXCEPT !.tk.pc = "sleep",
                        !.tk.pending = NoPending,
                        !.tk.delays = Append(@, wait_exponential(s1.tk.attempt))]

\* Variant: the probe is retried like the decorated functions.
Raise_retry_probe(s, e) == AttemptFailed(s, e)

\* An exception leaves the attempt: the probe is not decorated, so it
\* reaches the tool's except clause; the decorated functions go to tenacity.
Raise(s, e) ==
    IF s.tk.fn = "probe" THEN Catch(s, e) ELSE AttemptFailed(s, e)

\* get_schema or execute_query returned v to the tool.
FnReturn(s, v) ==
    LET s1 == [s EXCEPT !.tk.retval = v,
                        !.firstSchema =
                            IF s.tk.fn = "get_schema" /\ @ = None THEN v ELSE @]
    IN  IF s.tk.op = "connect_graphql"
        THEN Finish(s1, "Successfully connected to ", <<"GRAPHQL_ENDPOINT", ". Schema loaded.">>)
        ELSE IF s.tk.op = "generate_query"
        THEN Finish(s1, "Given this GraphQL schema:", <<v>>)
        ELSE Finish(s1, "", json_dumps(v))

(***************************************************************************)
(* One attempt, up to its first await                                      *)
(***************************************************************************)
\* Variant: execute_query also caches the schema its session holds.
EnterSession_cache_any(s) ==
    IF s.tk.fn = "get_schema"
    THEN LET text == print_schema(s.gql)
         IN  [s EXCEPT !.schema = text,
                       !.schemaSessions = @ + 1,
                       !.tk.pending = [k |-> "ret", v |-> text],
                       !.tk.pc = "close"]
    ELSE IF s.tk.fn = "execute_query" /\ ~gql(s.tk.query).ok
    THEN [s EXCEPT !.tk.pending = [k |-> "raise", v |-> GraphQLSyntaxError],
                   !.tk.pc = "close"]
    ELSE IF s.transport = "free"
    THEN [s EXCEPT !.tk.pending = [k |-> "raise", v |-> TransportClosed],
                   !.tk.pc = "close"]
    ELSE [s EXCEPT !.schema = IF s.tk.fn = "execute_query" THEN print_schema(s.gql) ELSE @,
                   !.tk.pc = "execute", !.tk.net = @ + 1]

\* Variant: get_schema keeps a value that is already cached.
EnterSession_keep_first(s) ==
    IF s.tk.fn = "get_schema"
    THEN LET text == print_schema(s.gql)
         IN  [s EXCEPT !.schema = IF @ = None THEN text ELSE @,
                       !.schemaSessions = @ + 1,
                       !.tk.pending = [k |-> "ret", v |-> text],
                       !.tk.pc = "close"]
    ELSE IF s.tk.fn = "execute_query" /\ ~gql(s.tk.query).ok
    THEN [s EXCEPT !.tk.pending = [k |-> "raise", v |-> GraphQLSyntaxError],
                   !.tk.pc = "close"]
    ELSE IF s.transport = "free"
    THEN [s EXCEPT !.tk.pending = [k |-> "raise", v |-> TransportClosed],
                   !.tk.pc = "close"]
    ELSE [s EXCEPT !.tk.pc = "execute", !.tk.net = @ + 1]

\* The body of the `async with` block, entered with the session open.
EnterSession(s) ==
    IF s.tk.fn = "get_schema"
    THEN LET text == print_schema(s.gql)
         IN  [s EXCEPT !.schema = text,
                       !.schemaSessions = @ + 1,
                       !.tk.pending = [k |-> "ret", v |-> text],
                       !.tk.pc = "close"]
    ELSE IF s.tk.fn = "execute_query" /\ ~gql(s.tk.query).ok
    THEN [s EXCEPT !.tk.pending = [k |-> "raise", v |-> GraphQLSyntaxError],
                   !.tk.pc = "close"]
    ELSE IF s.transport = "free"
    THEN [s EXCEPT !.tk.pending = [k |-> "raise", v |-> TransportClosed],
                   !.tk.pc = "close"]
    ELSE [s EXCEPT !.tk.pc = "execute", !.tk.net = @ + 1]

\* Variant: the cache is never consulted.
cache_hit_never(s) == FALSE

\* The cache test of get_schema
cache_hit(s) == s.tk.fn = "get_schema" /\ s.schema # None

\* Start attempt s.tk.attempt of s.tk.fn.
BeginAttempt(s) ==
    IF cache_hit(s)
    THEN FnReturn(s, s.schema)
    ELSE IF s.transport # "free"
    THEN IF s.closeOnConnectError
         THEN [s EXCEPT !.tk.pending = [k |-> "raise", v |-> TransportAlreadyConnected],
                        !.tk.pc = "close"]
         ELSE Raise(s, TransportAlreadyConnected)
    ELSE LET s1 == [s EXCEPT !.transport = s.id, !.tk.opens = @ + 1]
         IN  IF s1.gql = None
             THEN [s1 EXCEPT !.tk.pc = "fetch", !.tk.net = @ + 1]
             ELSE EnterSession(s1)

CallFn(s, fn) ==
    BeginAttempt([s EXCEPT !.tk.fn = fn,
                           !.tk.attempt = 1,
                           !.tk.delays = <<>>,
                           !.tk.causes = <<>>,
                           !.tk.opens = 0,
                           !.tk.net = 0,
                           !.tk.retval = None,
                           !.tk.entryFirst = s.firstSchema])

\* A value leaves the `async with` block: after the probe connect_graphql
\* goes on to get_schema; the decorated functions return to the tool.
Return(s, v) ==
    IF s.tk.fn = "probe"
    THEN CallFn([s EXCEPT !.tk.probeOk = TRUE], "get_schema")
    ELSE FnReturn(s, v)

(***************************************************************************)
(* Actions                                                                 *)
(***************************************************************************)
Init ==
    /\ schema = None
    /\ gqlSchema = None
    /\ transport = "free"
    /\ closeOnConnectError \in BOOLEAN
    /\ task = [t \in Tasks |-> IdleTask]
    /\ ncalls = 0
    /\ firstSchema = None
    /\ schemaSessions = 0

CanCall(t) == task[t].pc \in {"idle", "done"} /\ ncalls < MaxCalls

Fresh(t, op) ==
    [State(t) EXCEPT !.tk = [IdleTask EXCEPT !.op = op, !.entrySchema = schema]]

\* Variant: the schema is fetched without probing first.
connect_graphql_no_probe(t) ==
    /\ CanCall(t)
    /\ ncalls' = ncalls + 1
    /\ Apply(CallFn(Fresh(t, "connect_graphql"), "get_schema"))

connect_graphql(t) ==
    /\ CanCall(t)
    /\ ncalls' = ncalls + 1
    /\ Apply(CallFn(Fresh(t, "connect_graphql"), "probe"))

generate_query(t) ==
    /\ CanCall(t)
    /\ ncalls' = ncalls + 1
    /\ Apply(CallFn(Fresh(t, "generate_query"), "get_schema"))

execute_graphql(t, query, variables) ==
    /\ CanCall(t)
    /\ ncalls' = ncalls + 1
    /\ LET s0 == [Fresh(t, "execute_graphql") EXCEPT !.tk.query = query,
                                                      !.tk.variables = variables]
       IN  IF Truthy(variables) /\ ~json_loads(variables.s).ok
           THEN Apply(Catch(s0, JSONDecodeError))
           ELSE Apply(CallFn([s0 EXCEPT !.tk.vars_dict =
                                            IF Truthy(variables)
                                            THEN json_loads(variables.s).val
                                            ELSE None,
                                        !.tk.invoked = TRUE],
                             "execute_query"))

\* The introspection query awaited on session entry completes.
FetchDone(t, failures) ==
    /\ task[t].pc = "fetch"
    /\ UNCHANGED ncalls
    /\ \/ \E r \in RemoteSchemas :
            Apply(EnterSession([State(t) EXCEPT !.gql = [t |-> "schema", of |-> r]]))
       \/ \E c \in failures :
            Apply([State(t) EXCEPT !.tk.pending = [k |-> "raise", v |-> c],
                                   !.tk.netFailed = TRUE,
                                   !.tk.pc = "close"])

\* session.execute completes: with the data, or raising one of `failures`
\* (a transport failure, or TransportQueryError for a response with errors).
ExecuteDone(t, failures) ==
    /\ task[t].pc = "execute"
    /\ UNCHANGED ncalls
    /\ \/ Apply([State(t) EXCEPT
                    !.tk.pending =
                        [k |-> "ret",
                         v |-> IF task[t].fn = "probe"
                               THEN Response([fields |-> <<"__schema">>], None)
                               ELSE Response(gql(task[t].query).doc, task[t].vars_dict)],
                    !.tk.pc = "close"])
       \/ \E c \in failures :
            Apply([State(t) EXCEPT !.tk.pending = [k |-> "raise", v |-> c],
                                   !.tk.netFailed = TRUE,
                                   !.tk.appErr = (@ \/ c = TransportQueryError),
                                   !.tk.pc = "close"])

\* Variant: the transport is closed only when the block is left normally.
CloseDone_leak(t) ==
    /\ task[t].pc = "close"
    /\ UNCHANGED ncalls
    /\ IF task[t].pending.k = "ret"
       THEN Apply(Return([State(t) EXCEPT !.transport = "free"], task[t].pending.v))
       ELSE Apply(Raise(State(t), task[t].pending.v))

\* transport.close() completes: the block is left with a value or an exception.
CloseDone(t) ==
    /\ task[t].pc = "close"
    /\ UNCHANGED ncalls
    /\ LET s == [State(t) EXCEPT !.transport = "free"]
       IN  IF task[t].pending.k = "ret"
           THEN Apply(Return(s, task[t].pending.v))
           ELSE Apply(Raise(s, task[t].pending.v))

\* tenacity's sleep between attempts is over.
Wake(t) ==
    /\ task[t].pc = "sleep"
    /\ UNCHANGED ncalls
    /\ Apply(BeginAttempt([State(t) EXCEPT !.tk.attempt = @ + 1]))

\* One caller that awaits each tool call before issuing the next.
Next ==
    \E t \in {"t1"} :
        \/ connect_graphql(t)
        \/ generate_query(t)
        \/ \E q \in Queries, v \in VariablesInputs : execute_graphql(t, q, v)
        \/ FetchDone(t, TransportFailures)
        \/ ExecuteDone(t, TransportFailures \cup {TransportQueryError})
        \/ CloseDone(t)
        \/ Wake(t)

Spec == Init /\ [][Next]_vars

\* The sequential caller on an event loop that resumes every coroutine whose
\* await can complete: each network request ends (with a response, an error
\* or the transport's timeout), each close returns, each sleep expires.
FairSpec ==
    /\ Spec
    /\ WF_vars(FetchDone("t1", TransportFailures))
    /\ WF_vars(ExecuteDone("t1", TransportFailures \cup {TransportQueryError}))
    /\ WF_vars(CloseDone("t1"))
    /\ WF_vars(Wake("t1"))

\* Callers that issue tool calls concurrently on the shared client.
ConcQueries == { <<"{", "a", "}">>, <<"{", "b", "}">> }
ConcVariables == { None }
ConcFailures == { [cls |-> "TimeoutError", msg |-> "timed out"] }

NextConc ==
    \E t \in Tasks :
        \/ ncalls < MaxConcCalls /\ connect_graphql(t)
        \/ ncalls < MaxConcCalls /\ generate_query(t)
        \/ \E q \in ConcQueries, v \in ConcVariables :
                ncalls < MaxConcCalls /\ execute_graphql(t, q, v)
        \/ FetchDone(t, ConcFailures)
        \/ ExecuteDone(t, ConcFailures)
        \/ CloseDone(t)
        \/ Wake(t)

SpecConc == Init /\ [][NextConc]_vars

TypeOK ==
    /\ transport \in Tasks \cup {"free"}
    /\ ncalls \in 0..MaxCalls
    /\ \A t \in Tasks : task[t].pc \in {"idle", "fetch", "execute", "close", "sleep", "done"}

(***************************************************************************)
(* Properties                                                              *)
(***************************************************************************)
Retried(t) == task[t].fn \in {"get_schema", "execute_query"}

\* C1: once a get_schema call has returned successfully, every later
\* get_schema call returns that same schema text at once, without opening a
\* session and without a network round trip; over any number of sequential
\* calls exactly one session is ever entered to fetch the schema.
C1_CachedSchemaReused ==
    /\ \A t \in Tasks :
         (task[t].fn = "get_schema" /\ task[t].entryFirst # None) =>
            /\ task[t].pc = "done"
            /\ task[t].raised = NoExc
            /\ task[t].retval = task[t].entryFirst
            /\ task[t].opens = 0
            /\ task[t].net = 0
            /\ task[t].attempt = 1
    /\ firstSchema # None => schemaSessions = 1 /\ schema = firstSchema

C1_Witness ==
    \E t \in Tasks :
        /\ task[t].op = "generate_query"
        /\ task[t].entryFirst # None
        /\ task[t].pc = "done"
        /\ task[t].retval = firstSchema
        /\ schemaSessions = 1

\* C2: an invocation of get_schema or execute_query never makes more than 3
\* attempts (and so never opens more than 3 sessions); when 3 attempts have
\* failed it has stopped retrying and the tool has returned a failure.
C2_AtMostThreeAttempts ==
    \A t \in Tasks :
        Retried(t) =>
            /\ task[t].attempt <= 3
            /\ task[t].opens <= 3
            /\ Len(task[t].causes) <= 3
            /\ Len(task[t].causes) = 3 =>
                    /\ task[t].pc = "done"
                    /\ task[t].raised.cls = "RetryError"

C2_Witness ==
    \E t \in Tasks :
        /\ Retried(t)
        /\ Len(task[t].causes) = 3
        /\ \A i \in 1..3 : task[t].causes[i] \in TransportFailures
        /\ task[t].opens = 3
        /\ task[t].pc = "done"

\* C3: a malformed document makes execute_query fail on its first attempt,
\* with no retry, no backoff delay, no session opened and no network call.
C3_MalformedFailsFast ==
    \A t \in Tasks :
        (task[t].fn = "execute_query" /\ ~gql(task[t].query).ok) =>
            /\ task[t].attempt = 1
            /\ task[t].delays = <<>>
            /\ task[t].opens = 0
            /\ task[t].net = 0

\* C4: a response carrying application-level GraphQL errors is not retried:
\* one attempt is made, no backoff is waited and the tool returns the
\* endpoint's response rather than a local failure.
C4_AppErrorsNotRetried ==
    \A t \in Tasks :
        (task[t].fn = "execute_query" /\ task[t].appErr) =>
            /\ task[t].attempt = 1
            /\ task[t].delays = <<>>
            /\ task[t].pc = "done" => task[t].raised = NoExc

\* C5: two concurrent execute_graphql calls with different well-formed
\* queries do not disturb each other: a call the endpoint never failed has no
\* failed attempt, and it returns the result of its own query.
C5_ConcurrentExecuteSafe ==
    \A t1, t2 \in Tasks :
        ( /\ t1 # t2
          /\ task[t1].op = "execute_graphql" /\ task[t2].op = "execute_graphql"
          /\ task[t1].invoked /\ task[t2].invoked
          /\ gql(task[t1].query).ok /\ gql(task[t2].query).ok
          /\ task[t1].query # task[t2].query
          /\ ~task[t1].netFailed ) =>
            /\ task[t1].causes = <<>>
            /\ task[t1].pc = "done" =>
                    task[t1].result =
                        [t |-> "str", prefix |-> "",
                         body |-> json_dumps(Response(gql(task[t1].query).doc,
                                                      task[t1].vars_dict))]

\* C6: every tool call ends by returning a string; an exception raised
\* inside it never escapes: it is turned into a string that starts with the
\* tool's failure prefix, and connect_graphql against an unreachable
\* endpoint returns a string containing "Error connecting".
C6_BoundaryReturnsString ==
    \A t \in Tasks :
        /\ task[t].pc = "done" =>
                /\ task[t].result.t = "str"
                /\ task[t].raised # NoExc =>
                        /\ task[t].result.prefix = ErrorPrefix(task[t].op)
                        /\ task[t].result.body = StrExc(task[t].raised)
                /\ task[t].raised = NoExc =>
                        task[t].result.prefix # ErrorPrefix(task[t].op)
        /\ task[t].raised # NoExc => task[t].pc = "done"
        /\ ( /\ task[t].op = "connect_graphql"
             /\ task[t].fn = "probe"
             /\ task[t].netFailed
             /\ task[t].pc \in {"idle", "done"} ) =>
                task[t].result.prefix = "Error connecting to GraphQL endpoint: "

C6_Witness ==
    \E t \in Tasks :
        /\ task[t].op = "connect_graphql"
        /\ task[t].fn = "probe"
        /\ task[t].pc = "done"
        /\ task[t].raised \in TransportFailures
        /\ task[t].result.prefix = "Error connecting to GraphQL endpoint: "

\* C7 as stated: a variables string that is invalid JSON makes
\* execute_graphql fail with a parse error without calling execute_query,
\* opening a session or using the network; a valid one is deserialized and
\* the deserialized value is passed to execute_query.
C7_InvalidJsonRejected ==
    \A t \in Tasks :
        (task[t].op = "execute_graphql" /\ task[t].variables.t = "str") =>
            IF ~json_loads(task[t].variables.s).ok
            THEN /\ task[t].pc = "done"
                 /\ task[t].raised = JSONDecodeError
                 /\ ~task[t].invoked
                 /\ task[t].opens = 0
                 /\ task[t].net = 0
            ELSE /\ task[t].invoked
                 /\ task[t].vars_dict = json_loads(task[t].variables.s).val

\* C7 amended: the same for every non-empty variables string; the empty
\* string is treated as absent variables: execute_query is called with None.
C7_NonEmptyInvalidJsonRejected ==
    \A t \in Tasks :
        (task[t].op = "execute_graphql" /\ task[t].variables.t = "str") =>
            IF task[t].variables.s = <<>>
            THEN /\ task[t].invoked
                 /\ task[t].vars_dict = None
            ELSE IF ~json_loads(task[t].variables.s).ok
            THEN /\ task[t].pc = "done"
                 /\ task[t].raised = JSONDecodeError
                 /\ task[t].result.prefix = "Error executing query: "
                 /\ ~task[t].invoked
                 /\ task[t].opens = 0
                 /\ task[t].net = 0
            ELSE /\ task[t].invoked
                 /\ task[t].vars_dict = json_loads(task[t].variables.s).val
                 /\ (task[t].pc = "done" /\ task[t].raised = NoExc) =>
                        task[t].retval.bound = json_loads(task[t].variables.s).val

C7_Witness ==
    \E t \in Tasks :
        /\ task[t].op = "execute_graphql"
        /\ task[t].variables.t = "str"
        /\ task[t].variables.s # <<>>
        /\ ~json_loads(task[t].variables.s).ok
        /\ task[t].pc = "done"
        /\ task[t].raised = JSONDecodeError

\* C8: the schema cache only moves from absent to cached: a step never
\* resets a cached schema to absent, and a step changes the cache only when
\* a get_schema attempt has entered its session and stored the text it
\* returns.
C8_CacheOnlyPopulated ==
    [][ /\ schema # None => schema' # None
        /\ schema' # schema =>
              \E t \in Tasks :
                  /\ task'[t].fn = "get_schema"
                  /\ task'[t].pc = "close"
                  /\ task'[t].pending = [k |-> "ret", v |-> schema'] ]_vars

C8_Witness ==
    /\ schema # None
    /\ \E t \in Tasks : task[t].raised.cls = "RetryError"

\* C9: when all 3 attempts of get_schema or execute_query fail with a
\* transport failure, the error signalled wraps the exception of the third
\* attempt, and the failure string the tool returns names that exception.
C9_LastCauseCarried ==
    \A t \in Tasks :
        ( /\ Retried(t)
          /\ Len(task[t].causes) = 3
          /\ \A i \in 1..3 : task[t].causes[i] \in TransportFailures ) =>
            /\ task[t].raised = RetryError(task[t].causes[3])
            /\ task[t].result.prefix = ErrorPrefix(task[t].op)
            /\ task[t].result.body[2] = task[t].causes[3].cls

C9_Witness ==
    \E t \in Tasks :
        /\ task[t].fn = "execute_query"
        /\ Len(task[t].causes) = 3
        /\ \A i \in 1..3 : task[t].causes[i] \in TransportFailures
        /\ task[t].causes[1] # task[t].causes[3]
        /\ task[t].raised.cls = "RetryError"
        /\ task[t].raised.last = task[t].causes[3]

\* C10: the delay waited before attempt n+1 is 1 x 2^(n-1) clamped into
\* [2, 10]; every delay lies in [2, 10] and the delays of one invocation are
\* non-decreasing.
C10_BackoffDelays ==
    \A t \in Tasks :
        Retried(t) =>
            /\ Len(task[t].delays) =
                    IF task[t].pc = "sleep" THEN task[t].attempt ELSE task[t].attempt - 1
            /\ \A n \in 1..Len(task[t].delays) :
                    /\ task[t].delays[n] =
                            IF 2 ^ (n - 1) < 2 THEN 2
                            ELSE IF 2 ^ (n - 1) > 10 THEN 10 ELSE 2 ^ (n - 1)
                    /\ task[t].delays[n] \in 2..10
                    /\ n > 1 => task[t].delays[n - 1] <= task[t].delays[n]

C10_Witness ==
    \E t \in Tasks :
        /\ Retried(t)
        /\ task[t].attempt = 3
        /\ Len(task[t].delays) = 2
        /\ task[t].pc # "done"

\* C11: every session opened by get_schema, execute_query or the probe is
\* released when its `async with` scope ends, on every exit path: when no
\* operation is inside a session scope (idle, asleep between attempts, or
\* finished, with or without an error) the transport holds no session, and a
\* session is held only while the task that opened it is inside its scope.
InScope(t) == task[t].pc \in {"fetch", "execute", "close"}

C11_SessionsReleased ==
    /\ (\A t \in Tasks : ~InScope(t)) => transport = "free"
    /\ \A t \in Tasks : transport = t => InScope(t)

C11_Witness ==
    \E t \in Tasks :
        /\ task[t].pc = "sleep"
        /\ task[t].opens >= 1
        /\ task[t].causes # <<>>
        /\ task[t].causes[1] \in TransportFailures
        /\ transport = "free"

\* C12: get_schema calls that start while the cache is absent are not
\* single-flight: each may pass the cache test and fetch on its own.  The
\* cache write is atomic with rendering the text: the cache always holds
\* nothing or one complete schema text, and the step in which a get_schema
\* attempt renders its text leaves exactly that text in the cache, whatever
\* was there, so after both calls the cache holds the text written last.
CompleteSchemaTexts ==
    { [t |-> "sdl", of |-> [t |-> "schema", of |-> r]] : r \in RemoteSchemas }

C13_ProbeBeforeSchema ==
    \A t \in Tasks :
        task[t].op = "connect_graphql" =>
            /\ task[t].fn \in {"probe", "get_schema"}
            /\ task[t].fn = "get_schema" => task[t].probeOk
            /\ task[t].fn = "probe" =>
                    /\ ~task[t].probeOk
                    /\ task[t].retval = None
                    /\ schema = task[t].entrySchema
                    /\ task[t].pc = "done" =>
                            /\ task[t].raised # NoExc
                            /\ task[t].result.prefix = "Error connecting to GraphQL endpoint: "
                            /\ task[t].result.body = StrExc(task[t].raised)

C13_Witness ==
    \E t \in Tasks :
        /\ task[t].op = "connect_graphql"
        /\ task[t].fn = "probe"
        /\ task[t].pc = "done"
        /\ task[t].netFailed
        /\ task[t].entrySchema # None
        /\ schema = task[t].entrySchema

\* C14: an attempt of get_schema or execute_query that fails while fewer
\* than 3 attempts were made is followed, after the backoff sleep, by a fresh
\* attempt that acquires a session of its own; the invocation fails only after
\* 3 failed attempts, and when an attempt succeeds it returns that attempt's
\* result without a further attempt.
C14_RetryThenReturn ==
    /\ [](\A t \in Tasks :
            Retried(t) =>
                /\ task[t].pc = "sleep" =>
                        /\ Len(task[t].causes) = task[t].attempt
                        /\ task[t].attempt < 3
                /\ (task[t].pc = "done" /\ task[t].raised # NoExc) =>
                        Len(task[t].causes) = 3
                /\ (task[t].pc = "done" /\ task[t].raised = NoExc) =>
                        /\ task[t].attempt = Len(task[t].causes) + 1
                        /\ task[t].fn = "execute_query" =>
                                task[t].retval =
                                    Response(gql(task[t].query).doc, task[t].vars_dict)
                        /\ task[t].fn = "get_schema" => task[t].retval = schema
                /\ (task[t].fn = "execute_query" \/ task[t].entrySchema = None) =>
                        task[t].opens = task[t].attempt)
    /\ \A t \in Tasks : \A n \in 1..2 :
            (Retried(t) /\ task[t].pc = "sleep" /\ task[t].attempt = n)
                ~> (Retried(t) /\ task[t].attempt = n + 1 /\ task[t].opens = n + 1)

C14_Witness ==
    \E t \in Tasks :
        /\ task[t].fn = "execute_query"
        /\ task[t].pc = "done"
        /\ task[t].raised = NoExc
        /\ Len(task[t].causes) = 2
        /\ \A i \in 1..2 : task[t].causes[i] \in TransportFailures
        /\ task[t].attempt = 3
        /\ task[t].opens = 3

\* C15: no step of an execute_graphql call (the call itself, a failed or
\* successful attempt of execute_query, the give-up after 3 attempts) changes
\* the schema cache, and a successful call returns the JSON text of the
\* answer to its own query and variables whether the cache is absent or
\* populated.
C15_ExecuteLeavesCache ==
    /\ [][ \A t \in Tasks :
              (task'[t] # task[t] /\ task'[t].op = "execute_graphql") =>
                    /\ schema' = schema
                    /\ firstSchema' = firstSchema ]_vars
    /\ [](\A t \in Tasks :
            (task[t].op = "execute_graphql" /\ task[t].pc = "done" /\ task[t].raised = NoExc) =>
                task[t].result =
                    [t |-> "str", prefix |-> "",
                     body |-> json_dumps(Response(gql(task[t].query).doc, task[t].vars_dict))])

C15_Witness ==
    \E t \in Tasks :
        /\ task[t].op = "execute_graphql"
        /\ task[t].pc = "done"
        /\ task[t].raised.cls = "RetryError"
        /\ task[t].entrySchema # None
        /\ schema = task[t].entrySchema

\* C16: a get_schema invocation leaves the cache as it was at the call while
\* its attempts fail and when it has failed for good; the cache differs from
\* its value at the call only once an attempt has acquired a session and
\* rendered a complete text, which is the value returned; a call that finds
\* the cache absent acquires a session to fetch afresh, with a network round
\* trip unless the gql client already holds the schema.
C16_FailedFetchLeavesCache ==
    \A t \in Tasks :
        task[t].fn = "get_schema" =>
            /\ (task[t].pc = "sleep" \/ task[t].raised # NoExc) =>
                    schema = task[t].entrySchema
            /\ schema # task[t].entrySchema =>
                    /\ task[t].opens >= 1
                    /\ task[t].pc \in {"close", "done"}
                    /\ schema = [t |-> "sdl", of |-> gqlSchema]
                    /\ gqlSchema # None
                    /\ task[t].pc = "close" => task[t].pending = [k |-> "ret", v |-> schema]
                    /\ task[t].pc = "done" => task[t].retval = schema
            /\ task[t].entrySchema = None =>
                    /\ task[t].opens >= 1
                    /\ task[t].net = 0 => (gqlSchema # None /\ task[t].causes = <<>>)
            /\ (task[t].pc = "done" /\ task[t].raised = NoExc) =>
                    /\ task[t].retval = schema
                    /\ schema.of # None

C16_Witness ==
    \E t \in Tasks :
        /\ task[t].op = "generate_query"
        /\ task[t].fn = "get_schema"
        /\ task[t].pc = "done"
        /\ task[t].raised.cls = "RetryError"
        /\ task[t].opens = 3
        /\ task[t].entrySchema = None
        /\ schema = None

\* C17: the probe of connect_graphql is outside the retry policy: it is
\* attempted once, in one session, with no backoff sleep; when it fails, the
\* first failure ends the call with the failure message although the
\* 3-attempt budget of the decorated functions would leave attempts.
C17_ProbeNotRetried ==
    \A t \in Tasks :
        (task[t].op = "connect_graphql" /\ task[t].fn = "probe") =>
            /\ task[t].attempt = 1
            /\ task[t].opens <= 1
            /\ task[t].delays = <<>>
            /\ task[t].causes = <<>>
            /\ task[t].pc # "sleep"
            /\ task[t].pc = "done" =>
                    /\ task[t].raised # NoExc
                    /\ task[t].raised.cls # "RetryError"
                    /\ task[t].result.prefix = "Error connecting to GraphQL endpoint: "

C17_Witness ==
    \E t \in Tasks :
        /\ task[t].op = "connect_graphql"
        /\ task[t].fn = "probe"
        /\ task[t].pc = "done"
        /\ task[t].raised \in TransportFailures
        /\ task[t].attempt = 1
        /\ task[t].attempt < MaxAttempts
        /\ task[t].opens = 1
        /\ task[t].net = 2
        /\ task[t].delays = <<>>

\* C18: on an event loop that resumes every coroutine whose await can
\* complete, and with every network request ending, every call of
\* connect_graphql, generate_query and execute_graphql eventually returns a
\* string: no call retries or sleeps forever.
C18_EveryCallReturns ==
    \A t \in Tasks :
        (task[t].pc \notin {"idle", "done"})
            ~> (task[t].pc = "done" /\ task[t].result.t = "str")

C18_Witness ==
    \E t \in Tasks :
        /\ task[t].op = "execute_graphql"
        /\ task[t].pc = "done"
        /\ task[t].raised.cls = "RetryError"
        /\ task[t].delays = <<2, 2>>
        /\ task[t].result.t = "str"
        /\ task[t].result.prefix = "Error executing query: "

====
